---- MODULE Spec2Model ----
(***************************************************************************)
(* Model of the two adapter layers of ai2thor:                             *)
(*   - GymTHOR, the Gym-style environment wrapper   (src/ai2thor/gym.py)   *)
(*   - Jarvis, the agent facade            (src/ai2thor/agents/jarvis.py)  *)
(*                                                                         *)
(* Reading conventions for gym.py.  The body of reset() (lines 107-124) is *)
(* indented unevenly; it is read as the statement sequence of the method.  *)
(* The name controller_properties (lines 28-29) is bound nowhere in the    *)
(* module: Python resolves it in the module globals, so the binding is an  *)
(* input of the model (unbound, or a parameter bag put there by the        *)
(* embedding program).  GymTHOR is abstract: a program runs a concrete     *)
(* environment that supplies action_space, scene_names, episode_done and   *)
(* reward; what that environment supplies is an input too (variable env).  *)
(***************************************************************************)
EXTENDS Integers, Sequences, FiniteSets, TLC

\* ---------------------------------------------------------------- bounds
MaxTimeStep == 2     \* cap on time_step
MaxRuns == 2         \* wrappers constructed in one process
MaxLog == 2          \* reset() choices remembered per run
MaxForeign == 1      \* draws by other consumers of the generator per run
MaxTick == 3         \* simulator ticks of the facade's controller

\* ------------------------------------------------------- program constants
DefaultRotateStep == 90      \* gym.py:28
FullTurn == 360              \* gym.py:117

\* ------------------------------------------------------------ input sets
Seeds == {42, 7}
Scenes == <<"Kitchen", "Bedroom">>
SceneSet == {Scenes[i] : i \in 1..Len(Scenes)}
ActionSpace == {"MoveAhead"}
StepInputs == ActionSpace \cup {"Fly"}
NoPos == [x |-> -1, y |-> -1, z |-> -1]
NoRot == [x |-> -1, y |-> -1, z |-> -1]
NoKey == [present |-> FALSE, value |-> 0]
Bags == {NoKey, [present |-> TRUE, value |-> 120]}
Unbound == [bound |-> FALSE, bag |-> NoKey]
Bindings == {Unbound} \cup {[bound |-> TRUE, bag |-> b] : b \in Bags}
\* the methods GymTHOR leaves to the subclass
ExtensionPoints == {"action_space", "scene_names", "episode_done", "reward"}
\* concrete environments: all four extension points are overridden
Envs == {[dispatch |-> FALSE, recordsDone |-> FALSE, overrides |-> ExtensionPoints],
         [dispatch |-> TRUE, recordsDone |-> FALSE, overrides |-> ExtensionPoints],
         [dispatch |-> TRUE, recordsDone |-> TRUE, overrides |-> ExtensionPoints]}
\* GymTHOR itself, and a subclass that supplies the scene names only
BaseEnvs == {[dispatch |-> FALSE, recordsDone |-> FALSE, overrides |-> {}],
             [dispatch |-> FALSE, recordsDone |-> FALSE, overrides |-> {"scene_names"}]}

\* The simulator's navigable points per scene (metadata['reachablePositions']).
SimReachable(scene) ==
    IF scene = "Kitchen"
    THEN <<[x |-> 0, y |-> 0, z |-> 0], [x |-> 1, y |-> 0, z |-> 0]>>
    ELSE <<[x |-> 2, y |-> 0, z |-> 2], [x |-> 3, y |-> 0, z |-> 2],
           [x |-> 3, y |-> 0, z |-> 3]>>

VARIABLES
    phase,                  \* "none" | "ready" | "failed": the wrapper object
                            \* (failed: __init__ raised, the object is half built)
    env,                    \* what the environment's class supplies
    controller_properties,  \* module-global binding read at gym.py:28-29
    controller_initialization, \* the constructor's parameter bag
    seed,                   \* the constructor's seed
    rng,                    \* state of the process-global random generator
    foreign,                \* draws by other consumers of rng since seeding
    initial_positions,      \* scene -> recorded reachable positions
    done,                   \* self._episode_already_done
    time_step,              \* self.time_step
    horizon,                \* self.horizon (episode horizon)
    rotateStepDegrees,      \* self.rotateStepDegrees
    ctrl,                   \* the Controller Proxy
    last,                   \* the last wrapper call: op, arg, error, result, proxy calls,
                            \* episode_done verdict
    scope,                  \* "none" | "inside" | "exited": with-statement
    runs,                   \* wrappers constructed so far
    runLog,                 \* (scene, position, yaw) chosen by this run's resets
    prevRun                 \* the previous run: seed, log, foreign draws

VARIABLES
    sim,                    \* the simulator's agent: position, rotation, camera horizon
    jctrl,                  \* the facade's controller: tick count, latest-Event slot,
                            \* last request received
    jhorizon,               \* Agent.horizon, the facade's own camera horizon
    jlast                   \* the last facade call: op, arguments, error, result

jarvisVars == <<sim, jctrl, jhorizon, jlast>>

gymVars == <<phase, env, controller_properties, controller_initialization, seed,
             rng, foreign, initial_positions, done, time_step, horizon,
             rotateStepDegrees, ctrl, last, scope, runs, runLog, prevRun>>

vars == <<gymVars, jarvisVars>>

\* ------------------------------------------------------------ values
NoEvent == [kind |-> "none", scene |-> "none", pos |-> NoPos, rotation |-> NoRot]
NoneV == [tag |-> "None", ev |-> NoEvent]
TrueV == [tag |-> "True", ev |-> NoEvent]
Raised == <<>>          \* the call raised: nothing is returned

\* ------------------------------------------------------ Controller Proxy
\* ai2thor.controller.Controller is not among the sources; it is modelled
\* from the spec: one call = one tick, the Event lands in the latest-Event
\* slot; a call on a stopped proxy is dispatched and fails in transport.
MkCall(kind, scene, pos, rotation) ==
    [kind |-> kind, scene |-> scene, pos |-> pos, rotation |-> rotation]

ControllerStart(bag) ==
    [stopped |-> FALSE, scene |-> "none", last_event |-> MkCall("start", "none", NoPos, NoRot)]

\* run of one wrapper operation against the proxy: the proxy, the calls
\* issued so far and the error raised so far ("none" while running)
Run0(c) == [ctrl |-> c, calls |-> <<>>, err |-> "none"]

ControllerCall(r, call) ==
    IF r.err # "none" THEN r
    ELSE IF r.ctrl.stopped
         THEN [r EXCEPT !.calls = Append(@, call), !.err = "TransportError"]
         ELSE [ctrl |-> [r.ctrl EXCEPT !.last_event = call,
                                       !.scene = IF call.kind = "reset" THEN call.scene ELSE @],
               calls |-> Append(r.calls, call),
               err |-> "none"]

ControllerReset(r, scene) == ControllerCall(r, MkCall("reset", scene, NoPos, NoRot))

ControllerStep(r, action, pos, rotation) ==
    ControllerCall(r, MkCall(action, r.ctrl.scene, pos, rotation))

\* stop releases the session; the proxy reports no error for it
ControllerStop(c) == [ctrl |-> [c EXCEPT !.stopped = TRUE], err |-> "none"]

\* ------------------------------------------------------ random generator
\* random.seed / random.choice: a deterministic generator; the state after
\* seeding is a function of the seed, every draw advances the state.
Advance(s) == (7 * s + 5) % 31

SeedState(n) == n % 31

Choice(s, seq) == [rng |-> Advance(s), val |-> seq[(Advance(s) % Len(seq)) + 1]]

\* np.arange(lo, hi, step) for a positive step
arange(lo, hi, step) == [i \in 1..((hi - lo + step - 1) \div step) |-> lo + (i - 1) * step]

\* ------------------------------------------------------------ GymTHOR
\* _seed leaving the generator as it is
_seed_keepsState(seed_num) == rng

\* GymTHOR._seed: seeds the process-global generator
_seed(seed_num) == SeedState(seed_num)

\* GymTHOR.observation(event): the normalised frame of that event
observation(event) == [tag |-> "obs", ev |-> event]

Sentinel == <<NoneV, NoneV, TrueV, NoneV>>

\* GymTHOR.initial_scene_positions: one reset and one GetReachablePositions
\* per scene; r is the run against the proxy, table the dictionary so far
RECURSIVE initial_scene_positions(_, _, _)
initial_scene_positions(i, r, table) ==
    IF i > Len(Scenes) \/ r.err # "none"
    THEN [run |-> r, table |-> table]
    ELSE LET r1 == ControllerReset(r, Scenes[i])
             r2 == ControllerStep(r1, "GetReachablePositions", NoPos, NoRot)
         IN  initial_scene_positions(i + 1, r2,
                 IF r2.err = "none"
                 THEN [table EXCEPT ![Scenes[i]] = SimReachable(r2.ctrl.scene)]
                 ELSE table)

EmptyTable == [s \in SceneSet |-> <<>>]

\* verdict: what episode_done returned in the call, "none" if it was not asked
Called(op, arg, err, ret, calls) ==
    [op |-> op, arg |-> arg, err |-> err, ret |-> ret, calls |-> calls, verdict |-> "none"]

\* action_space answering with an empty space where the class has none
action_space_defaultsToEmpty(e) ==
    IF "action_space" \in e.overrides
    THEN [err |-> "none", val |-> ActionSpace]
    ELSE [err |-> "none", val |-> {}]

\* GymTHOR.action_space (lines 42-55): raises unless the class overrides it
action_space(e) ==
    IF "action_space" \in e.overrides
    THEN [err |-> "none", val |-> ActionSpace]
    ELSE [err |-> "NotImplementedError", val |-> {}]

\* GymTHOR.scene_names (lines 57-59)
scene_names(e) ==
    IF "scene_names" \in e.overrides
    THEN [err |-> "none", val |-> Scenes]
    ELSE [err |-> "NotImplementedError", val |-> <<>>]

\* GymTHOR.episode_done (lines 67-68); verdict is the override's answer
episode_done(e, verdict) ==
    IF "episode_done" \in e.overrides
    THEN [err |-> "none", val |-> verdict]
    ELSE [err |-> "NotImplementedError", val |-> FALSE]

\* GymTHOR.reward (lines 87-88)
reward(e) ==
    IF "reward" \in e.overrides
    THEN [err |-> "none", val |-> 0]
    ELSE [err |-> "NotImplementedError", val |-> 0]

\* GymTHOR.__init__ (lines 15-29).  When scene_names raises at line 21 the
\* proxy is started and the generator seeded, the fields of lines 22-29 stay
\* unassigned.
__init__(bag, hz, sd, e) ==
    /\ UNCHANGED jarvisVars
    /\ LET named == scene_names(e).err = "none"
           built == initial_scene_positions(1, Run0(ControllerStart(bag)), EmptyTable)
           ok == controller_properties.bound
           props == controller_properties.bag
       IN  /\ ctrl' = IF named THEN built.run.ctrl ELSE ControllerStart(bag)
           /\ initial_positions' = IF named THEN built.table ELSE initial_positions
           /\ done' = IF named THEN FALSE ELSE done
           /\ time_step' = IF named THEN 0 ELSE time_step
           /\ horizon' = IF named THEN hz ELSE horizon
           /\ rotateStepDegrees' =
                 IF ~named THEN rotateStepDegrees
                 ELSE IF ~ok THEN 0
                 ELSE IF ~props.present THEN DefaultRotateStep ELSE props.value
           /\ phase' = IF named /\ ok THEN "ready" ELSE "failed"
           /\ last' = Called("__init__", "none",
                             IF ~named THEN scene_names(e).err
                             ELSE IF ok THEN "none" ELSE "NameError",
                             Raised, IF named THEN built.run.calls ELSE <<>>)
    /\ rng' = _seed(sd)
    /\ seed' = sd
    /\ foreign' = 0
    /\ env' = e
    /\ controller_initialization' = bag
    /\ scope' = "none"
    /\ runs' = runs + 1
    /\ runLog' = <<>>
    /\ prevRun' = IF phase = "ready"
                  THEN [valid |-> TRUE, seed |-> seed, log |-> runLog, foreign |-> foreign]
                  ELSE prevRun
    /\ UNCHANGED controller_properties

\* the first wrapper of the process is constructed
Construct(bag, hz, sd, e) ==
    /\ phase = "none"
    /\ __init__(bag, hz, sd, e)

\* a further wrapper is constructed in the same process (it re-seeds the
\* process-global generator); the model follows the newest wrapper
Reconstruct(bag, hz, sd, e) ==
    /\ phase = "ready"
    /\ runs < MaxRuns
    /\ scope # "inside"
    /\ __init__(bag, hz, sd, e)

\* reset drawing the position from the table entry of the first scene
\* instead of the chosen one
reset_positionOfFirstScene ==
    LET c1 == Choice(rng, Scenes)
        scene == c1.val
        r1 == ControllerReset(Run0(ctrl), scene)
        c2 == Choice(c1.rng, initial_positions[Scenes[1]])
        c3 == Choice(c2.rng, arange(0, FullTurn, rotateStepDegrees))
        r2 == ControllerStep(r1, "TeleportFull", c2.val, [x |-> 0, y |-> c3.val, z |-> 0])
    IN  IF r1.err # "none"
        THEN [done |-> FALSE, time_step |-> time_step, rng |-> c1.rng, run |-> r1,
              ret |-> Raised, chosen |-> <<>>]
        ELSE [done |-> FALSE, time_step |-> time_step, rng |-> c3.rng, run |-> r2,
              ret |-> IF r2.err = "none" THEN <<observation(r2.ctrl.last_event)>> ELSE Raised,
              chosen |-> <<[scene |-> scene, pos |-> c2.val, yaw |-> c3.val]>>]

\* reset asking the simulator for the reachable positions of the new scene
\* again before it draws one
reset_requeriesPositions ==
    LET c1 == Choice(rng, Scenes)
        scene == c1.val
        r1 == ControllerStep(ControllerReset(Run0(ctrl), scene),
                             "GetReachablePositions", NoPos, NoRot)
        c2 == Choice(c1.rng, initial_positions[scene])
        c3 == Choice(c2.rng, arange(0, FullTurn, rotateStepDegrees))
        r2 == ControllerStep(r1, "TeleportFull", c2.val, [x |-> 0, y |-> c3.val, z |-> 0])
    IN  IF r1.err # "none"
        THEN [done |-> FALSE, time_step |-> time_step, rng |-> c1.rng, run |-> r1,
              ret |-> Raised, chosen |-> <<>>]
        ELSE [done |-> FALSE, time_step |-> time_step, rng |-> c3.rng, run |-> r2,
              ret |-> IF r2.err = "none" THEN <<observation(r2.ctrl.last_event)>> ELSE Raised,
              chosen |-> <<[scene |-> scene, pos |-> c2.val, yaw |-> c3.val]>>]

\* reset returning the observation of the Event of the scene reset, not of
\* the teleport
reset_observesSceneReset ==
    LET c1 == Choice(rng, Scenes)
        scene == c1.val
        r1 == ControllerReset(Run0(ctrl), scene)
        c2 == Choice(c1.rng, initial_positions[scene])
        c3 == Choice(c2.rng, arange(0, FullTurn, rotateStepDegrees))
        r2 == ControllerStep(r1, "TeleportFull", c2.val, [x |-> 0, y |-> c3.val, z |-> 0])
    IN  IF r1.err # "none"
        THEN [done |-> FALSE, time_step |-> time_step, rng |-> c1.rng, run |-> r1,
              ret |-> Raised, chosen |-> <<>>]
        ELSE [done |-> FALSE, time_step |-> time_step, rng |-> c3.rng, run |-> r2,
              ret |-> IF r2.err = "none" THEN <<observation(r1.ctrl.last_event)>> ELSE Raised,
              chosen |-> <<[scene |-> scene, pos |-> c2.val, yaw |-> c3.val]>>]

\* GymTHOR.reset (lines 104-124): what one call computes from the state
reset ==
    LET c1 == Choice(rng, Scenes)
        scene == c1.val
        r1 == ControllerReset(Run0(ctrl), scene)
        c2 == Choice(c1.rng, initial_positions[scene])
        c3 == Choice(c2.rng, arange(0, FullTurn, rotateStepDegrees))
        r2 == ControllerStep(r1, "TeleportFull", c2.val, [x |-> 0, y |-> c3.val, z |-> 0])
    IN  IF r1.err # "none"
        THEN [done |-> FALSE, time_step |-> time_step, rng |-> c1.rng, run |-> r1,
              ret |-> Raised, chosen |-> <<>>]
        ELSE [done |-> FALSE, time_step |-> time_step, rng |-> c3.rng, run |-> r2,
              ret |-> IF r2.err = "none" THEN <<observation(r2.ctrl.last_event)>> ELSE Raised,
              chosen |-> <<[scene |-> scene, pos |-> c2.val, yaw |-> c3.val]>>]

Reset ==
    /\ UNCHANGED jarvisVars
    /\ phase = "ready"
    /\ LET o == reset
       IN  /\ done' = o.done
           /\ time_step' = o.time_step
           /\ rng' = o.rng
           /\ ctrl' = o.run.ctrl
           /\ last' = Called("reset", "none", o.run.err, o.ret, o.run.calls)
           /\ runLog' = IF Len(runLog) < MaxLog THEN runLog \o o.chosen ELSE runLog
    /\ UNCHANGED <<phase, env, controller_properties, controller_initialization, seed,
                   foreign, initial_positions, horizon, rotateStepDegrees, scope,
                   runs, prevRun>>

\* step without the check of the done flag (lines 72-73 left out)
step_withoutDoneCheck(action, verdict) ==
    LET same == [done |-> done, time_step |-> time_step, run |-> Run0(ctrl)]
        r1 == ControllerStep(Run0(ctrl), action, NoPos, NoRot)
    IN  IF action_space(env).err # "none"
        THEN same @@ [err |-> action_space(env).err, ret |-> Raised]
        ELSE IF action \notin action_space(env).val
        THEN same @@ [err |-> "AssertionError", ret |-> Raised]
        ELSE IF ~env.dispatch
        THEN same @@ [err |-> "NotImplementedError", ret |-> Raised]
        ELSE IF r1.err # "none"
        THEN [same EXCEPT !.run = r1] @@ [err |-> r1.err, ret |-> Raised]
        ELSE [done |-> IF env.recordsDone THEN episode_done(env, verdict).val ELSE done,
              time_step |-> time_step + 1,
              run |-> r1,
              err |-> "TypeError",
              ret |-> Raised]

\* step with the done check placed before the assertion on the action
step_doneCheckFirst(action, verdict) ==
    LET same == [done |-> done, time_step |-> time_step, run |-> Run0(ctrl)]
        r1 == ControllerStep(Run0(ctrl), action, NoPos, NoRot)
    IN  IF done
        THEN same @@ [err |-> "none", ret |-> Sentinel]
        ELSE IF action_space(env).err # "none"
        THEN same @@ [err |-> action_space(env).err, ret |-> Raised]
        ELSE IF action \notin action_space(env).val
        THEN same @@ [err |-> "AssertionError", ret |-> Raised]
        ELSE IF ~env.dispatch
        THEN same @@ [err |-> "NotImplementedError", ret |-> Raised]
        ELSE IF r1.err # "none"
        THEN [same EXCEPT !.run = r1] @@ [err |-> r1.err, ret |-> Raised]
        ELSE [done |-> IF env.recordsDone THEN episode_done(env, verdict).val ELSE done,
              time_step |-> time_step + 1,
              run |-> r1,
              err |-> "TypeError",
              ret |-> Raised]

\* step marking the episode done once time_step reaches the horizon
step_enforcesHorizon(action, verdict) ==
    LET same == [done |-> done, time_step |-> time_step, run |-> Run0(ctrl)]
        r1 == ControllerStep(Run0(ctrl), action, NoPos, NoRot)
    IN  IF action_space(env).err # "none"
        THEN same @@ [err |-> action_space(env).err, ret |-> Raised]
        ELSE IF action \notin action_space(env).val
        THEN same @@ [err |-> "AssertionError", ret |-> Raised]
        ELSE IF done
        THEN same @@ [err |-> "none", ret |-> Sentinel]
        ELSE IF ~env.dispatch
        THEN same @@ [err |-> "NotImplementedError", ret |-> Raised]
        ELSE IF r1.err # "none"
        THEN [same EXCEPT !.run = r1] @@ [err |-> r1.err, ret |-> Raised]
        ELSE [done |-> IF env.recordsDone THEN episode_done(env, verdict).val
                       ELSE time_step + 1 >= horizon,
              time_step |-> time_step + 1,
              run |-> r1,
              err |-> "TypeError",
              ret |-> Raised]

\* GymTHOR.step (lines 70-85).  Line 75 stands where the dispatch to the
\* proxy belongs: with env.dispatch the concrete environment supplies it and
\* lines 77-85 run, otherwise the line raises as written.  verdict is what
\* the environment's episode_done returns for the new Event; with
\* env.recordsDone the environment also stores it in _episode_already_done
\* (line 78 itself keeps it in a local).  Line 81 calls observation() without
\* the event it requires.  Line 71 evaluates the action_space property
\* first, so its error comes before the assertion.
step(action, verdict) ==
    LET same == [done |-> done, time_step |-> time_step, run |-> Run0(ctrl)]
        r1 == ControllerStep(Run0(ctrl), action, NoPos, NoRot)
    IN  IF action_space(env).err # "none"
        THEN same @@ [err |-> action_space(env).err, ret |-> Raised]
        ELSE IF action \notin action_space(env).val
        THEN same @@ [err |-> "AssertionError", ret |-> Raised]
        ELSE IF done
        THEN same @@ [err |-> "none", ret |-> Sentinel]
        ELSE IF ~env.dispatch
        THEN same @@ [err |-> "NotImplementedError", ret |-> Raised]
        ELSE IF r1.err # "none"
        THEN [same EXCEPT !.run = r1] @@ [err |-> r1.err, ret |-> Raised]
        ELSE [done |-> IF env.recordsDone THEN episode_done(env, verdict).val ELSE done,
              time_step |-> time_step + 1,
              run |-> r1,
              err |-> "TypeError",
              ret |-> Raised]

StepCall(action, verdict) ==
    /\ UNCHANGED jarvisVars
    /\ LET o == step(action, verdict)
       IN  /\ o.time_step <= MaxTimeStep
           /\ done' = o.done
           /\ time_step' = o.time_step
           /\ ctrl' = o.run.ctrl
           /\ last' = [Called("step", action, o.err, o.ret, o.run.calls)
                         EXCEPT !.verdict = IF o.time_step = time_step THEN "none"
                                            ELSE IF verdict THEN "True" ELSE "False"]
    /\ UNCHANGED <<phase, env, controller_properties, controller_initialization, seed,
                   rng, foreign, initial_positions, horizon, rotateStepDegrees, scope,
                   runs, runLog, prevRun>>

Step(action, verdict) ==
    /\ phase = "ready"
    /\ StepCall(action, verdict)

\* step called on an object whose constructor raised (the caller kept the
\* object, as object.__new__ followed by __init__ allows)
StepUnbuilt(action, verdict) ==
    /\ phase = "failed"
    /\ StepCall(action, verdict)

\* One of the four extension points is called directly.
CallExtension(name) ==
    /\ UNCHANGED jarvisVars
    /\ phase \in {"ready", "failed"}
    /\ LET out == IF name = "action_space" THEN action_space(env).err
                  ELSE IF name = "scene_names" THEN scene_names(env).err
                  ELSE IF name = "episode_done" THEN episode_done(env, FALSE).err
                  ELSE reward(env).err
       IN  last' = Called(name, "none", out,
                          IF out = "none" THEN <<[tag |-> "value", ev |-> NoEvent]>> ELSE Raised,
                          <<>>)
    /\ UNCHANGED <<phase, env, controller_properties, controller_initialization, seed,
                   rng, foreign, initial_positions, done, time_step, horizon,
                   rotateStepDegrees, ctrl, scope, runs, runLog, prevRun>>

\* close refusing a proxy that is already stopped
close_failsWhenStopped ==
    IF ctrl.stopped THEN [ctrl |-> ctrl, err |-> "RuntimeError"] ELSE ControllerStop(ctrl)

\* GymTHOR.close (lines 143-145)
close == ControllerStop(ctrl)

Close ==
    /\ UNCHANGED jarvisVars
    /\ phase = "ready"
    /\ ctrl' = close.ctrl
    /\ last' = Called("close", "none", close.err,
                      IF close.err = "none" THEN <<NoneV>> ELSE Raised, <<>>)
    /\ UNCHANGED <<phase, env, controller_properties, controller_initialization, seed,
                   rng, foreign, initial_positions, done, time_step, horizon,
                   rotateStepDegrees, scope, runs, runLog, prevRun>>

\* GymTHOR.__enter__ (lines 135-137), called by the with statement
Enter ==
    /\ UNCHANGED jarvisVars
    /\ phase = "ready"
    /\ scope = "none"
    /\ scope' = "inside"
    /\ last' = Called("__enter__", "none", "none", <<[tag |-> "self", ev |-> NoEvent]>>, <<>>)
    /\ UNCHANGED <<phase, env, controller_properties, controller_initialization, seed,
                   rng, foreign, initial_positions, done, time_step, horizon,
                   rotateStepDegrees, ctrl, runs, runLog, prevRun>>

\* __exit__ stopping the proxy only when the block ended without exception
__exit___onlyWithoutException(exc) ==
    IF exc = "none" THEN ControllerStop(ctrl) ELSE [ctrl |-> ctrl, err |-> "none"]

\* GymTHOR.__exit__(*args) (lines 139-141); exc is args[0], "none" for None
__exit__(exc) == ControllerStop(ctrl)

\* The with statement leaves the block: normally, or with the exception the
\* last call in the block raised; either way it calls __exit__, which
\* returns None, so the exception goes on to the caller.
Exit(exc) ==
    /\ UNCHANGED jarvisVars
    /\ phase = "ready"
    /\ scope = "inside"
    /\ exc \in {"none", last.err}
    /\ ctrl' = __exit__(exc).ctrl
    /\ scope' = "exited"
    /\ last' = Called("__exit__", exc, IF __exit__(exc).err # "none" THEN __exit__(exc).err ELSE exc,
                      <<NoneV>>, <<>>)
    /\ UNCHANGED <<phase, env, controller_properties, controller_initialization, seed,
                   rng, foreign, initial_positions, done, time_step, horizon,
                   rotateStepDegrees, runs, runLog, prevRun>>

\* Another consumer of the process-global generator draws a number.
OtherDraw ==
    /\ UNCHANGED jarvisVars
    /\ phase = "ready"
    /\ foreign < MaxForeign
    /\ rng' = Advance(rng)
    /\ foreign' = foreign + 1
    /\ UNCHANGED <<phase, env, controller_properties, controller_initialization, seed,
                   initial_positions, done, time_step, horizon, rotateStepDegrees,
                   ctrl, last, scope, runs, runLog, prevRun>>

\* ------------------------------------------------------------- Jarvis
None == -1
Coords == {0, 1}
Yaws == {0, 90}
Pitches == {0, 30}
Opt(S) == S \cup {None}

NoJEvent == [exists |-> FALSE, tick |-> 0,
             position |-> [x |-> 0, y |-> 0, z |-> 0],
             rotation |-> [x |-> 0, y |-> 0, z |-> 0],
             cameraHorizon |-> 0, lastActionSuccess |-> FALSE]

\* a value read out of an Event, with the tick of the Event it came from
Read(v, event) == [v |-> v, tick |-> event.tick]

NoF == [v |-> None, tick |-> None]

NoRet == [x |-> NoF, z |-> NoF, rot_y |-> NoF, horizon |-> NoF, success |-> "none"]

NoArgs == [x |-> None, z |-> None, rot_y |-> None, horizon |-> None]

\* the parameters of a request that is not a TeleportFull
NoWant == [position |-> [x |-> None, y |-> None, z |-> None],
           rotation |-> [x |-> None, y |-> None, z |-> None],
           cameraHorizon |-> None]

\* The facade's controller (ai2thor.controller.Controller, modelled from the
\* spec): step executes one tick and stores the Event in the latest-Event
\* slot; last_request is the request it received last.  st is the pair of the controller and the simulator's agent; want is
\* the pose a TeleportFull asks for, ok the simulator's verdict on it.
JControllerStep(st, action, want, ok) ==
    LET agent == IF action = "TeleportFull" /\ ok THEN want ELSE st.sim
        event == [exists |-> TRUE, tick |-> st.ctrl.tick + 1,
                  position |-> agent.position, rotation |-> agent.rotation,
                  cameraHorizon |-> agent.cameraHorizon,
                  lastActionSuccess |-> ok]
        request == [action |-> action, want |-> IF action = "TeleportFull" THEN want ELSE NoWant]
    IN  [ctrl |-> [tick |-> st.ctrl.tick + 1, last_event |-> event, last_request |-> request],
         sim |-> agent]

\* Agent._step (ai2thor/agents/agent.py is not among the sources; from the
\* spec): dispatches the action to the controller and reports its success
_step(st, action, want, ok) == JControllerStep(st, action, want, ok)

\* pos refreshing the Event with a tick of its own before it reads
pos_stepsFirst(st) ==
    LET st1 == _step(st, "GetReachablePositions", st.sim, TRUE)
        event == st1.ctrl.last_event
    IN  IF ~st.ctrl.last_event.exists
        THEN [st |-> st, err |-> "AttributeError", x |-> NoF, z |-> NoF]
        ELSE [st |-> st1, err |-> "none",
              x |-> Read(event.position.x, event), z |-> Read(event.position.z, event)]

\* Jarvis.pos (lines 30-35); st is the controller with the simulator's agent,
\* returned as the call left it
pos(st) ==
    LET event == st.ctrl.last_event
    IN  IF ~event.exists
        THEN [st |-> st, err |-> "AttributeError", x |-> NoF, z |-> NoF]
        ELSE [st |-> st, err |-> "none",
              x |-> Read(event.position.x, event), z |-> Read(event.position.z, event)]

\* rot answering 0 when there is no Event instead of failing
rot_defaultsWithoutEvent(st) ==
    LET event == st.ctrl.last_event
    IN  IF ~event.exists
        THEN [st |-> st, err |-> "none", y |-> Read(0, event)]
        ELSE [st |-> st, err |-> "none", y |-> Read(event.rotation.y, event)]

\* Jarvis.rot (lines 37-41)
rot(st) ==
    LET event == st.ctrl.last_event
    IN  IF ~event.exists
        THEN [st |-> st, err |-> "AttributeError", y |-> NoF]
        ELSE [st |-> st, err |-> "none", y |-> Read(event.rotation.y, event)]

\* Jarvis.pose (lines 43-55): reads the slot, then self.pos, then self.rot
pose(st) ==
    LET event == st.ctrl.last_event
        p == pos(st)
        r == rot(p.st)
    IN  IF ~event.exists
        THEN [st |-> st, err |-> "AttributeError", ret |-> NoRet]
        ELSE IF p.err # "none"
        THEN [st |-> p.st, err |-> p.err, ret |-> NoRet]
        ELSE IF r.err # "none"
        THEN [st |-> r.st, err |-> r.err, ret |-> NoRet]
        ELSE [st |-> r.st, err |-> "none",
              ret |-> [NoRet EXCEPT !.x = p.x, !.z = p.z, !.rot_y = r.y,
                                    !.horizon = Read(event.cameraHorizon, event)]]

\* teleport taking an omitted horizon from the latest Event
teleport_horizonFromEvent(st, x, z, rot_y, hz, ok) ==
    LET event == st.ctrl.last_event
        p == event.position
        r == event.rotation
        want == [position |-> [x |-> IF x = None THEN p.x ELSE x,
                               y |-> p.y,
                               z |-> IF z = None THEN p.z ELSE z],
                 rotation |-> [x |-> r.x,
                               y |-> IF rot_y = None THEN r.y ELSE rot_y,
                               z |-> r.z],
                 cameraHorizon |-> IF hz = None THEN event.cameraHorizon ELSE hz]
    IN  IF ~event.exists
        THEN [st |-> st, err |-> "AttributeError", ret |-> NoRet]
        ELSE [st |-> _step(st, "TeleportFull", want, ok), err |-> "none",
              ret |-> [NoRet EXCEPT !.success = IF ok THEN "True" ELSE "False"]]

\* Jarvis.teleport (lines 68-93)
teleport(st, x, z, rot_y, hz, ok) ==
    LET event == st.ctrl.last_event
        p == event.position
        r == event.rotation
        want == [position |-> [x |-> IF x = None THEN p.x ELSE x,
                               y |-> p.y,
                               z |-> IF z = None THEN p.z ELSE z],
                 rotation |-> [x |-> r.x,
                               y |-> IF rot_y = None THEN r.y ELSE rot_y,
                               z |-> r.z],
                 cameraHorizon |-> IF hz = None THEN jhorizon ELSE hz]
    IN  IF ~event.exists
        THEN [st |-> st, err |-> "AttributeError", ret |-> NoRet]
        ELSE [st |-> _step(st, "TeleportFull", want, ok), err |-> "none",
              ret |-> [NoRet EXCEPT !.success = IF ok THEN "True" ELSE "False"]]

JCalled(op, args, out) == [op |-> op, args |-> args, err |-> out.err, ret |-> out.ret]

JState == [ctrl |-> jctrl, sim |-> sim]

JDo(op, args, out) ==
    /\ out.st.ctrl.tick <= MaxTick
    /\ jctrl' = out.st.ctrl
    /\ sim' = out.st.sim
    /\ jlast' = JCalled(op, args, out)
    /\ UNCHANGED <<jhorizon, gymVars>>

ReadPos ==
    LET o == pos(JState)
    IN  JDo("pos", NoArgs, [st |-> o.st, err |-> o.err, ret |-> [NoRet EXCEPT !.x = o.x, !.z = o.z]])

ReadRot ==
    LET o == rot(JState)
    IN  JDo("rot", NoArgs, [st |-> o.st, err |-> o.err, ret |-> [NoRet EXCEPT !.rot_y = o.y]])

ReadPose == JDo("pose", NoArgs, pose(JState))

\* Jarvis.reachable_positions (lines 57-66): one GetReachablePositions tick
reachable_positions(st) ==
    [st |-> _step(st, "GetReachablePositions", st.sim, TRUE), err |-> "none", ret |-> NoRet]

ReachablePositions == JDo("reachable_positions", NoArgs, reachable_positions(JState))

Teleport(x, z, rot_y, hz, ok) ==
    JDo("teleport", [x |-> x, z |-> z, rot_y |-> rot_y, horizon |-> hz],
        teleport(JState, x, z, rot_y, hz, ok))

JInit ==
    /\ sim = [position |-> [x |-> 0, y |-> 1, z |-> 0],
              rotation |-> [x |-> 0, y |-> 0, z |-> 0],
              cameraHorizon |-> 0]
    /\ jctrl = [tick |-> 0, last_event |-> NoJEvent,
                last_request |-> [action |-> "none", want |-> NoWant]]
    /\ jhorizon = 0
    /\ jlast = [op |-> "none", args |-> NoArgs, err |-> "none", ret |-> NoRet]

Horizons == {1}
Errors == {"none", "AssertionError", "NotImplementedError", "TypeError", "TransportError"}

Init ==
    /\ phase = "none"
    /\ env = [dispatch |-> FALSE, recordsDone |-> FALSE, overrides |-> {}]
    /\ controller_properties \in Bindings
    /\ controller_initialization = NoKey
    /\ seed = 0
    /\ rng = 0
    /\ foreign = 0
    /\ initial_positions = EmptyTable
    /\ done = FALSE
    /\ time_step = 0
    /\ horizon = 0
    /\ rotateStepDegrees = 0
    /\ ctrl = [stopped |-> TRUE, scene |-> "none", last_event |-> NoEvent]
    /\ last = Called("none", "none", "none", Raised, <<>>)
    /\ scope = "none"
    /\ runs = 0
    /\ runLog = <<>>
    /\ prevRun = [valid |-> FALSE, seed |-> 0, log |-> <<>>, foreign |-> 0]
    /\ JInit

Next ==
    \/ \E bag \in Bags, hz \in Horizons, sd \in Seeds, e \in Envs : Construct(bag, hz, sd, e)
    \/ Reset
    \/ \E a \in StepInputs, v \in BOOLEAN : Step(a, v)
    \/ Close
    \/ Enter
    \/ \E exc \in Errors : Exit(exc)

Spec == Init /\ [][Next]_vars

\* Two wrappers in one process, with other consumers of the generator.
NextSeed ==
    \/ \E bag \in Bags, hz \in Horizons, sd \in Seeds, e \in Envs : Construct(bag, hz, sd, e)
    \/ \E bag \in Bags, hz \in Horizons, sd \in Seeds, e \in Envs : Reconstruct(bag, hz, sd, e)
    \/ Reset
    \/ OtherDraw

SpecSeed == Init /\ [][NextSeed]_vars

\* GymTHOR itself and a subclass with scene names only: the extension points
\* that are not overridden, called directly and through step.
NextBase ==
    \/ \E bag \in Bags, hz \in Horizons, sd \in Seeds, e \in BaseEnvs : Construct(bag, hz, sd, e)
    \/ Reset
    \/ \E a \in StepInputs, v \in BOOLEAN : Step(a, v)
    \/ \E a \in StepInputs, v \in BOOLEAN : StepUnbuilt(a, v)
    \/ Close
    \/ \E n \in ExtensionPoints : CallExtension(n)

SpecBase == Init /\ [][NextBase]_vars

\* The agent facade on its own controller.
InitJarvis ==
    /\ Init
    /\ controller_properties = Unbound

NextJarvis ==
    \/ ReadPos
    \/ ReadRot
    \/ ReadPose
    \/ ReachablePositions
    \/ \E x \in Opt(Coords), z \in Opt(Coords), rot_y \in Opt(Yaws), hz \in Opt(Pitches), ok \in BOOLEAN :
          Teleport(x, z, rot_y, hz, ok)

SpecJarvis == InitJarvis /\ [][NextJarvis]_vars

\* ======================================================= environment claims
Range(seq) == {seq[i] : i \in 1..Len(seq)}

C2_StepAfterDoneIsSentinel ==
    [][(done /\ last'.op = "step" /\ last'.arg \in ActionSpace)
        => (/\ last'.err = "none"
            /\ last'.ret = Sentinel
            /\ last'.calls = <<>>
            /\ ctrl' = ctrl
            /\ done')]_vars

C2_Witness ==
    /\ done
    /\ last.op = "step"
    /\ last.arg \in ActionSpace
    /\ last.ret = Sentinel

\* C3: every reset() teleports to a position of the table entry recorded for
\* the scene that the same reset() chose, at a yaw that is a multiple of
\* rotateStepDegrees within [0, 360); the scene is one of the scene names.
C3_ResetTeleportsIntoTable ==
    last.op = "reset" =>
        /\ last.err = "none" => Len(last.calls) = 2 /\ last.calls[2].kind = "TeleportFull"
        /\ \A i \in 1..Len(last.calls) :
              last.calls[i].kind = "TeleportFull" =>
                  /\ i > 1
                  /\ last.calls[i - 1].kind = "reset"
                  /\ last.calls[i - 1].scene \in SceneSet
                  /\ last.calls[i].scene = last.calls[i - 1].scene
                  /\ last.calls[i].pos \in Range(initial_positions[last.calls[i - 1].scene])
                  /\ last.calls[i].pos \in Range(SimReachable(last.calls[i - 1].scene))
                  /\ last.calls[i].rotation.y % rotateStepDegrees = 0
                  /\ last.calls[i].rotation.y >= 0
                  /\ last.calls[i].rotation.y < FullTurn

C3_Witness ==
    /\ last.op = "reset"
    /\ last.err = "none"
    /\ Len(last.calls) = 2
    /\ last.calls[2].kind = "TeleportFull"
    /\ last.calls[2].scene = "Bedroom"
    /\ last.calls[2].rotation.y > 0

\* C6: two runs constructed with the same seed, with no other consumer of
\* the generator in either, choose the same (scene, position, yaw) at every
\* reset() both have made.
C6_SameSeedSameChoices ==
    (prevRun.valid /\ prevRun.seed = seed /\ prevRun.foreign = 0 /\ foreign = 0)
        => \A i \in 1..Len(runLog) : i <= Len(prevRun.log) => runLog[i] = prevRun.log[i]

C6_Witness ==
    /\ prevRun.valid
    /\ prevRun.seed = seed
    /\ prevRun.foreign = 0
    /\ foreign = 0
    /\ Len(prevRun.log) >= 2
    /\ Len(runLog) >= 2

C8_InvalidActionFailsFast ==
    [][(last'.op = "step" /\ last'.arg \notin ActionSpace)
        => (/\ last'.err = "AssertionError"
            /\ last'.ret = Raised
            /\ last'.calls = <<>>
            /\ ctrl' = ctrl
            /\ time_step' = time_step
            /\ done' = done)]_vars

C8_Witness ==
    /\ last.op = "step"
    /\ last.arg \notin ActionSpace
    /\ last.err = "AssertionError"
    /\ done
    /\ time_step > 0

\* C9: once the with statement has left the block, by whatever path, the
\* proxy session is released.
C9_ScopeExitReleasesSession ==
    scope = "exited" => ctrl.stopped

C9_Witness ==
    /\ scope = "exited"
    /\ last.op = "__exit__"
    /\ last.arg \in {"TypeError", "NotImplementedError", "AssertionError"}
    /\ ctrl.stopped

\* =========================================================== facade claims
PoseOf(c, s) == pose([ctrl |-> c, sim |-> s]).ret

\* C4: a successful teleport leaves every omitted field of the pose as it
\* was read immediately before the call.
C4_TeleportKeepsOmittedFields ==
    [][(jlast'.op = "teleport" /\ jlast'.err = "none" /\ jlast'.ret.success = "True"
            /\ jctrl'.tick = jctrl.tick + 1)
        => (/\ jlast'.args.x = None => PoseOf(jctrl', sim').x.v = PoseOf(jctrl, sim).x.v
            /\ jlast'.args.z = None => PoseOf(jctrl', sim').z.v = PoseOf(jctrl, sim).z.v
            /\ jlast'.args.rot_y = None
                  => PoseOf(jctrl', sim').rot_y.v = PoseOf(jctrl, sim).rot_y.v
            /\ jlast'.args.horizon = None
                  => PoseOf(jctrl', sim').horizon.v = PoseOf(jctrl, sim).horizon.v)]_vars

\* C5: every field of the record that pose returns comes from one and the
\* same Event, the one in the slot when pose was called, and reading pose
\* issues no controller action.
C5_PoseIsOneSnapshot ==
    [][jlast'.op = "pose"
        => (/\ jctrl' = jctrl
            /\ sim' = sim
            /\ jlast'.err = "none"
                  => /\ jlast'.ret.x.tick = jctrl.last_event.tick
                     /\ jlast'.ret.z.tick = jctrl.last_event.tick
                     /\ jlast'.ret.rot_y.tick = jctrl.last_event.tick
                     /\ jlast'.ret.horizon.tick = jctrl.last_event.tick)]_vars

C5_Witness ==
    /\ jlast.op = "pose"
    /\ jlast.err = "none"
    /\ jlast.ret.horizon.tick >= 2
    /\ jlast.ret.x.tick = jlast.ret.horizon.tick
    /\ jlast.ret.rot_y.tick = jlast.ret.horizon.tick

\* C10: reading pos, rot or pose while the latest-Event slot is empty fails
\* with an error, returns no value and issues no controller action.
C10_ReadBeforeFirstTickFails ==
    [][(~jctrl.last_event.exists /\ jlast'.op \in {"pos", "rot", "pose"})
        => (/\ jlast'.err = "AttributeError"
            /\ jlast'.ret = NoRet
            /\ jctrl' = jctrl
            /\ sim' = sim)]_vars

C10_Witness ==
    /\ ~jctrl.last_event.exists
    /\ jlast.op \in {"pos", "rot", "pose"}
    /\ jlast.err = "AttributeError"
    /\ jlast.ret = NoRet

\* ============================================= environment claims, continued
\* C11: when the episode is not done and the action is in the action space,
\* step(action) dispatches exactly one action to the proxy, increments
\* time_step by exactly 1 and returns (observation, reward, done, metadata)
\* for the Event that the dispatch produced.
C11_StepDispatchesAndReturns ==
    [][(~done /\ ~ctrl.stopped /\ last'.op = "step" /\ last'.arg \in ActionSpace)
        => (/\ last'.err = "none"
            /\ Len(last'.calls) = 1
            /\ last'.calls[1].kind = last'.arg
            /\ time_step' = time_step + 1
            /\ Len(last'.ret) = 4
            /\ last'.ret[1] = observation(ctrl'.last_event)
            /\ last'.ret[4].ev = ctrl'.last_event)]_vars

C13_TableBuiltOnceThenReadOnly ==
    [][/\ last'.op = "__init__" =>
            /\ Len(last'.calls) = 2 * Len(Scenes)
            /\ \A i \in 1..Len(Scenes) :
                  /\ last'.calls[2 * i - 1] = MkCall("reset", Scenes[i], NoPos, NoRot)
                  /\ last'.calls[2 * i] = MkCall("GetReachablePositions", Scenes[i], NoPos, NoRot)
            /\ DOMAIN initial_positions' = SceneSet
            /\ \A sc \in SceneSet : initial_positions'[sc] = SimReachable(sc)
       /\ last'.op # "__init__" =>
            /\ initial_positions' = initial_positions
            /\ \A i \in 1..Len(last'.calls) : last'.calls[i].kind # "GetReachablePositions"]_vars

C13_Witness ==
    /\ phase = "ready"
    /\ last.op = "reset"
    /\ last.err = "none"
    /\ time_step > 0
    /\ ctrl.scene = "Bedroom"
    /\ initial_positions = [sc \in SceneSet |-> SimReachable(sc)]

\* C14: a reset() first resets the proxy into the chosen scene and then
\* issues exactly one TeleportFull that carries the position and the yaw
\* (rotation x and z being 0); what it returns is the observation of the
\* Event of that teleport.
C14_ResetThenOneTeleport ==
    last.op = "reset" =>
        /\ Len(last.calls) >= 1
        /\ last.calls[1] = MkCall("reset", last.calls[1].scene, NoPos, NoRot)
        /\ last.calls[1].scene \in SceneSet
        /\ last.err = "none" =>
              /\ Len(last.calls) = 2
              /\ last.calls[2].kind = "TeleportFull"
              /\ last.calls[2].scene = last.calls[1].scene
              /\ last.calls[2].pos # NoPos
              /\ last.calls[2].rotation.x = 0
              /\ last.calls[2].rotation.z = 0
              /\ last.calls[2].rotation.y >= 0
              /\ ctrl.last_event = last.calls[2]
              /\ last.ret = <<observation(last.calls[2])>>

C14_Witness ==
    /\ last.op = "reset"
    /\ last.err = "none"
    /\ Len(last.ret) = 1
    /\ last.ret[1].ev.kind = "TeleportFull"
    /\ last.ret[1].ev.scene = "Kitchen"
    /\ last.ret[1].ev.pos \in Range(SimReachable("Kitchen"))

\* ================================================ facade claims, continued
\* C15: teleport issues exactly one TeleportFull; it always sends y, rot_x
\* and rot_z of the latest Event; x, z and rot_y are the arguments, or the
\* latest Event's values where omitted; horizon is the argument, or the
\* facade's own horizon where omitted.
C15_TeleportRequest ==
    [][(jlast'.op = "teleport" /\ jlast'.err = "none")
        => (/\ jctrl'.tick = jctrl.tick + 1
            /\ jctrl'.last_request.action = "TeleportFull"
            /\ jctrl'.last_request.want.position.y = jctrl.last_event.position.y
            /\ jctrl'.last_request.want.rotation.x = jctrl.last_event.rotation.x
            /\ jctrl'.last_request.want.rotation.z = jctrl.last_event.rotation.z
            /\ jctrl'.last_request.want.position.x =
                  IF jlast'.args.x = None THEN jctrl.last_event.position.x ELSE jlast'.args.x
            /\ jctrl'.last_request.want.position.z =
                  IF jlast'.args.z = None THEN jctrl.last_event.position.z ELSE jlast'.args.z
            /\ jctrl'.last_request.want.rotation.y =
                  IF jlast'.args.rot_y = None THEN jctrl.last_event.rotation.y
                  ELSE jlast'.args.rot_y
            /\ jctrl'.last_request.want.cameraHorizon =
                  IF jlast'.args.horizon = None THEN jhorizon ELSE jlast'.args.horizon)]_vars

\* a refused teleport with the horizon omitted: the camera is at 30, the
\* request asked for the facade's own horizon
C15_Witness ==
    /\ jlast.op = "teleport"
    /\ jlast.err = "none"
    /\ jlast.args.horizon = None
    /\ jlast.ret.success = "False"
    /\ jctrl.last_event.cameraHorizon = 30
    /\ jctrl.last_request.action = "TeleportFull"
    /\ jctrl.last_request.want.cameraHorizon = jhorizon
    /\ jhorizon # 30

\* ============================================ environment claims, continued
\* C16: an extension point that the class does not override raises
\* NotImplementedError when called; step() on a wrapper without action_space
\* (GymTHOR itself in particular) raises NotImplementedError for every
\* action and every state, issues no call to the proxy and leaves time_step
\* and the done flag as they were.
C16_BaseWrapperNotImplemented ==
    [][/\ (last'.op \in ExtensionPoints /\ last'.op \notin env'.overrides)
            => (last'.err = "NotImplementedError" /\ last'.ret = Raised /\ last'.calls = <<>>)
       /\ (last'.op = "step" /\ "action_space" \notin env'.overrides)
            => (/\ last'.err = "NotImplementedError"
                /\ last'.ret = Raised
                /\ last'.calls = <<>>
                /\ ctrl' = ctrl
                /\ time_step' = time_step
                /\ done' = done)]_vars

\* GymTHOR itself, asked to step with an action no action space would hold
C16_Witness ==
    /\ env.overrides = {}
    /\ last.op = "step"
    /\ last.arg \notin ActionSpace
    /\ last.err = "NotImplementedError"
    /\ ~ctrl.stopped

\* the value the constructor's caller asked for
RequestedRotateStep ==
    IF controller_initialization.present
    THEN controller_initialization.value
    ELSE DefaultRotateStep

\* C17: constructing a concrete wrapper completes with rotateStepDegrees
\* equal to the rotateStepDegrees entry of the constructor's parameter bag,
\* or 90 when the bag has no such entry, with time_step 0 and the done flag
\* false; every later reset() draws its yaw from the multiples of that
\* value below 360.
C17_ConstructionTakesRotateStepFromBag ==
    /\ (last.op = "__init__" /\ env.overrides = ExtensionPoints)
          => (/\ last.err = "none"
              /\ phase = "ready"
              /\ rotateStepDegrees = RequestedRotateStep
              /\ time_step = 0
              /\ ~done)
    /\ (last.op = "reset" /\ env.overrides = ExtensionPoints)
          => \A i \in 1..Len(last.calls) :
                last.calls[i].kind = "TeleportFull"
                   => last.calls[i].rotation.y
                         \in Range(arange(0, FullTurn, RequestedRotateStep))

\* C18: unless the environment's class stores a verdict in the done flag
\* itself, no sequence of construct, reset, step and close calls makes the
\* flag true, also when time_step has reached or passed the horizon, and no
\* step answers with the post-done sentinel.
C18_DoneFlagNeverSetByWrapper ==
    ~env.recordsDone => (~done /\ (last.op = "step" => last.ret # Sentinel))

\* a step that took time_step past the horizon and left the flag false
C18_Witness ==
    /\ ~env.recordsDone
    /\ phase = "ready"
    /\ last.op = "step"
    /\ last.verdict = "True"
    /\ time_step > horizon
    /\ ~done

\* C19: close() and the exit of a with block change no episode state (done
\* flag, time_step, scene table, rotateStepDegrees) and the wrapper records
\* no closed state; a reset() or a step() on a running episode issued after
\* them is not refused by the wrapper and is dispatched to the stopped proxy.
C19_CloseKeepsStateCallsStillDispatched ==
    [][/\ last'.op \in {"close", "__exit__"}
            => (/\ done' = done
                /\ time_step' = time_step
                /\ initial_positions' = initial_positions
                /\ rotateStepDegrees' = rotateStepDegrees
                /\ phase' = phase)
       /\ (ctrl.stopped /\ last'.op = "reset")
            => (Len(last'.calls) >= 1 /\ last'.calls[1].kind = "reset")
       /\ (ctrl.stopped /\ ~done /\ last'.op = "step" /\ last'.arg \in ActionSpace)
            => (Len(last'.calls) = 1 /\ last'.calls[1].kind = last'.arg)]_vars

====
